---- MODULE Spec2Model ----
(***************************************************************************)
(* A model of the state-transition engine of the guitar-hero game: the     *)
(* State snapshot, the seven actions (Tick, CreateCircle, CreateBgCircle,  *)
(* PressKey, HoldKey, ReleaseKey, EndGame), the reducer reduceState and    *)
(* the deterministic random number generator used on a miss.               *)
(*                                                                         *)
(* Representation.                                                         *)
(*  - Positions (cy, y1, y2) are decimal strings in the source, produced   *)
(*    by `${Number(x) + 1}` and read back with Number(x); all of them are  *)
(*    integers, so they are modelled by the integer they denote.           *)
(*  - score and multiplier are doubles with at most one decimal; they are  *)
(*    modelled in tenths (multiplier 1.2 is 12, score 36 is 360).          *)
(*  - NoteData.start and NoteData.end are seconds in the source and        *)
(*    milliseconds here.                                                   *)
(*  - randomNumber is a double; it is modelled by its integer part and its *)
(*    fraction in tenths, and RNG.hash rounds as IEEE-754 doubles do.      *)
(***************************************************************************)
EXTENDS Integers, Sequences, FiniteSets

(***************************************************************************)
(* Constants (types.ts)                                                    *)
(***************************************************************************)
TICK_RATE_MS == 5
STARTING_OBJ_COUNT == 0
TARGET_CY == 350
TARGET_RANGE == 20
EXPIRE_LIMIT == 400
STARTING_SCORE == 0
SCORE_INCREASE == 10
BASE_CONSECUTIVE_HITS == 0
\* BASE_MULTIPLIER: 1 and MULTIPLIER_INCREASE: 0.2, in tenths
BASE_MULTIPLIER == 10
MULTIPLIER_INCREASE == 2
HITS_PER_MULTIPLIER_INCREASE == 10
\* STARTING_RANDOM_NUMBER: 0.1
STARTING_RANDOM_NUMBER == [int |-> 0, tenths |-> 1]
START_CY == 0
MOVEMENT == 1
\* DURATION_FOR_TAIL: 1 second, in milliseconds
DURATION_FOR_TAIL == 1000

ColumnKeys == {"KeyH", "KeyJ", "KeyK", "KeyL"}

keyToColumn(key) ==
    CASE key = "KeyH" -> "20%"
      [] key = "KeyJ" -> "40%"
      [] key = "KeyK" -> "60%"
      [] key = "KeyL" -> "80%"

(***************************************************************************)
(* Sequence helpers: Array.prototype.filter, map and some; Bind stands for *)
(* a const declaration: f(v) with v evaluated once, before f is applied.   *)
(***************************************************************************)
Filter(a, keep(_)) == SelectSeq(a, keep)

\* (concatenation makes TLC build the sequence at once)
Map(a, f(_)) == << >> \o [i \in 1..Len(a) |-> f(a[i])]

Some(a, p(_)) == \E i \in 1..Len(a) : p(a[i])

Bind(v, f(_)) == CHOOSE r \in {f(x) : x \in {v}} : TRUE

(***************************************************************************)
(* RNG (util.ts).  hash = (a * seed + c) % m in double arithmetic.  The    *)
(* product a * seed may need up to 61 bits, so it is kept as H * 2^31 + L  *)
(* (+ a fraction f in tenths) and rounded to the 53 significant bits of a  *)
(* double, ties to even, after the multiplication and after the addition.  *)
(***************************************************************************)
\* m - 1 = 2^31 - 1
RNG_m1 == 2147483647
RNG_a == 1103515245
RNG_c == 12345
TwoTo15 == 32768
TwoTo16 == 65536
TwoTo21 == 2097152

\* x + y for 0 <= x, y < 2^31 as [carry, sum] with x + y = carry * 2^31 + sum
AddCarry(x, y) ==
    IF x > RNG_m1 - y THEN [carry |-> 1, sum |-> (x - (RNG_m1 - y)) - 1]
    ELSE [carry |-> 0, sum |-> x + y]

\* the spacing of the doubles at H * 2^31, for H * 2^31 >= 2^52
RECURSIVE Ulp(_)
Ulp(H) == IF H < 2 * TwoTo21 THEN 1 ELSE 2 * Ulp(H \div 2)

\* v.H * 2^31 + base + rem + v.f/10 rounded to a multiple of u, where
\* cmp = 10 * rem + v.f - 5 * u compares the part dropped with u/2
RoundTo(v, u, base, cmp) ==
    IF cmp > 0 \/ (cmp = 0 /\ (base \div u) % 2 = 1)
    THEN IF base > RNG_m1 - u THEN [H |-> v.H + 1, L |-> 0, f |-> 0]
         ELSE [H |-> v.H, L |-> base + u, f |-> 0]
    ELSE [H |-> v.H, L |-> base, f |-> 0]

\* the double nearest to v.H * 2^31 + v.L + v.f/10 (exact below 2^52)
RoundDouble(v) ==
    IF v.H < TwoTo21 THEN v
    ELSE Bind(Ulp(v.H),
              LAMBDA u : RoundTo(v, u, v.L - (v.L % u),
                                 10 * (v.L % u) + v.f - 5 * u))

\* a * seed, exactly, as H * 2^31 + L + f/10: with seed.int = qh * 2^16 + ql
\* and a = ah * 2^16 + al the product of the integer parts is
\* ah * qh * 2^32 + (ah * ql + al * qh) * 2^16 + al * ql
MulSum(hi, mid, lo, fInt, fTen) ==
    Bind(AddCarry((mid % TwoTo15) * TwoTo16, lo), LAMBDA s1 :
    Bind(AddCarry(s1.sum, fInt), LAMBDA s2 :
        [H |-> 2 * hi + mid \div TwoTo15 + s1.carry + s2.carry,
         L |-> s2.sum, f |-> fTen]))

MulParts(qh, ql, ah, al, tenths) ==
    MulSum(ah * qh, ah * ql + al * qh, al * ql,
           (RNG_a \div 10) * tenths + ((RNG_a % 10) * tenths) \div 10,
           ((RNG_a % 10) * tenths) % 10)

MulA(seed) ==
    MulParts(seed.int \div TwoTo16, seed.int % TwoTo16,
             RNG_a \div TwoTo16, RNG_a % TwoTo16, seed.tenths)

hash(seed) ==
    Bind(RoundDouble(MulA(seed)), LAMBDA p :
    Bind(AddCarry(p.L, RNG_c), LAMBDA s :
    Bind(RoundDouble([H |-> p.H + s.carry, L |-> s.sum, f |-> p.f]), LAMBDA r :
        [int |-> r.L, tenths |-> r.f])))

\* floor(min + (hash / (m - 1)) * (max - min)): with n = max - min,
\* n * seed.int = X * 2^31 + Y = X * (m - 1) + (X + Y)
scaleToRangeFloor(seed, min, max) ==
    Bind((max - min) * (seed.int \div TwoTo16), LAMBDA u :
    Bind(AddCarry((u % TwoTo15) * TwoTo16,
                  (max - min) * (seed.int % TwoTo16)), LAMBDA s :
    Bind(AddCarry(s.sum, u \div TwoTo15 + s.carry
                           + ((max - min) * seed.tenths) \div 10), LAMBDA t :
        min + u \div TwoTo15 + s.carry
            + (IF t.carry = 1 \/ t.sum >= RNG_m1 THEN 1 ELSE 0))))

(***************************************************************************)
(* generateRandomNote (util.ts): the filler played on a miss.  The note's  *)
(* length RNG.scaleToRange(seed, 0, 0.5) seconds is kept in whole          *)
(* milliseconds.  An index outside the instruments array reads undefined.  *)
(***************************************************************************)
instruments ==
    <<"bass-electric", "violin", "piano", "trumpet", "saxophone", "trombone",
      "flute">>

instrumentAt(instrumentIndex) ==
    IF instrumentIndex + 1 \in DOMAIN instruments
    THEN instruments[instrumentIndex + 1] ELSE "undefined"

generateRandomNote(seed) ==
    [cy |-> TARGET_CY,
     note |-> [userPlayed |-> FALSE,
               instrumentName |->
                   instrumentAt(scaleToRangeFloor(seed, 0, Len(instruments))),
               velocity |-> scaleToRangeFloor(seed, 30, 127),
               pitch |-> scaleToRangeFloor(seed, 30, 90),
               start |-> 0,
               end |-> scaleToRangeFloor(seed, 0, 500)]]

(***************************************************************************)
(* Initial state (state.ts)                                                *)
(***************************************************************************)
initialState ==
    [backgroundCircles |-> << >>,
     circles |-> << >>,
     playedCircles |-> << >>,
     tails |-> << >>,
     finishedTails |-> << >>,
     exit |-> << >>,
     objCount |-> STARTING_OBJ_COUNT,
     score |-> STARTING_SCORE,
     consecutiveHits |-> BASE_CONSECUTIVE_HITS,
     multiplier |-> BASE_MULTIPLIER,
     randomNumber |-> STARTING_RANDOM_NUMBER,
     gameEnd |-> FALSE]

(***************************************************************************)
(* Helper functions (state.ts)                                             *)
(***************************************************************************)
columnArray == <<"20%", "40%", "60%", "80%">>
colourArray == <<"green", "red", "blue", "yellow">>

\* columnArray[index] and colourArray[index]; an index that is NaN or
\* negative reads undefined from both arrays (NaN is modelled by -1)
columnAndColourAt(index) ==
    IF index + 1 \in DOMAIN columnArray
    THEN [column |-> columnArray[index + 1], colour |-> colourArray[index + 1]]
    ELSE [column |-> "undefined", colour |-> "undefined"]

\* Math.floor((pitch - minPitch) / intervalSize) with
\* intervalSize = (maxPitch - minPitch) / 4.  With maxPitch = minPitch the
\* quotient is NaN (0/0), Infinity or -Infinity.
pitchInterval(d, w) ==
    IF w > 0 THEN (4 * d) \div w
    ELSE IF w < 0 THEN (-(4 * d)) \div (-w)
    ELSE IF d > 0 THEN 3 ELSE -1

getColumnAndColour(noteData, minPitch, maxPitch) ==
    Bind(pitchInterval(noteData.pitch - minPitch, maxPitch - minPitch),
         LAMBDA index : columnAndColourAt(IF index > 3 THEN 3 ELSE index))

\* (fault variant of isCircleAligned: the column is not compared)
isCircleAlignedAnyColumn(circle, cx) ==
    /\ circle.cy >= TARGET_CY - TARGET_RANGE
    /\ circle.cy <= TARGET_CY + TARGET_RANGE

isCircleAligned(circle, cx) ==
    /\ circle.cx = cx
    /\ circle.cy >= TARGET_CY - TARGET_RANGE
    /\ circle.cy <= TARGET_CY + TARGET_RANGE

isTailEndAligned(tail, cx) ==
    /\ tail.x1 = cx
    /\ tail.y2 >= TARGET_CY - TARGET_RANGE
    /\ tail.y2 <= TARGET_CY

\* (fault variant of initialisePressAndHoldKey: the tailed circles are taken
\* from all the circles, aligned or not)
initialisePressAndHoldKeyAnyTail(s, key) ==
    Bind(keyToColumn(key), LAMBDA cx :
    Bind(Filter(s.circles, LAMBDA c : isCircleAligned(c, cx)),
         LAMBDA alignedCircles :
        [alignedCircles |-> alignedCircles,
         alignedTailCircles |-> Filter(s.circles, LAMBDA c : c.hasTail),
         remainingCircles |->
             Filter(s.circles, LAMBDA c : ~isCircleAligned(c, cx))]))

initialisePressAndHoldKey(s, key) ==
    Bind(keyToColumn(key), LAMBDA cx :
    Bind(Filter(s.circles, LAMBDA c : isCircleAligned(c, cx)),
         LAMBDA alignedCircles :
        [alignedCircles |-> alignedCircles,
         alignedTailCircles |-> Filter(alignedCircles, LAMBDA c : c.hasTail),
         remainingCircles |->
             Filter(s.circles, LAMBDA c : ~isCircleAligned(c, cx))]))

\* (fault variant of calculateNewMultiplier: the step comes one hit late)
calculateNewMultiplierLate(newConsecutiveHits) ==
    BASE_MULTIPLIER
        + (IF newConsecutiveHits = 0 THEN 0
           ELSE (newConsecutiveHits - 1) \div HITS_PER_MULTIPLIER_INCREASE)
            * MULTIPLIER_INCREASE

\* Number((1 + floor(hits / 10) * 0.2).toFixed(1)), in tenths
calculateNewMultiplier(newConsecutiveHits) ==
    BASE_MULTIPLIER
        + (newConsecutiveHits \div HITS_PER_MULTIPLIER_INCREASE)
            * MULTIPLIER_INCREASE

\* (fault variant of updateHitsAndMultiplier: a miss resets the multiplier
\* but not the hits)
updateHitsAndMultiplierKeepHits(isMiss, consecutiveHits, additionalHits) ==
    [newConsecutiveHits |-> consecutiveHits + additionalHits,
     newMultiplier |->
         IF isMiss THEN BASE_MULTIPLIER
         ELSE calculateNewMultiplier(consecutiveHits + additionalHits)]

\* (fault variant of updateHitsAndMultiplier: a miss resets the hits but
\* not the multiplier)
updateHitsAndMultiplierKeepMultiplier(isMiss, consecutiveHits, additionalHits) ==
    [newConsecutiveHits |->
         IF isMiss THEN BASE_CONSECUTIVE_HITS
         ELSE consecutiveHits + additionalHits,
     newMultiplier |->
         calculateNewMultiplier(consecutiveHits
                                    + (IF isMiss THEN 0 ELSE additionalHits))]

\* (fault variant of updateHitsAndMultiplier: the additional hits are not
\* added)
updateHitsAndMultiplierNoExtra(isMiss, consecutiveHits, additionalHits) ==
    [newConsecutiveHits |->
         IF isMiss THEN BASE_CONSECUTIVE_HITS ELSE consecutiveHits,
     newMultiplier |->
         IF isMiss THEN BASE_MULTIPLIER
         ELSE calculateNewMultiplier(consecutiveHits)]

updateHitsAndMultiplier(isMiss, consecutiveHits, additionalHits) ==
    Bind(IF isMiss THEN BASE_CONSECUTIVE_HITS
         ELSE consecutiveHits + additionalHits,
         LAMBDA newConsecutiveHits :
        [newConsecutiveHits |-> newConsecutiveHits,
         newMultiplier |->
             IF isMiss THEN BASE_MULTIPLIER
             ELSE calculateNewMultiplier(newConsecutiveHits)])

\* (fault variant of addRandomBgCircle: the filler is generated from the
\* old seed)
addRandomBgCircleOldSeed(isMiss, randomNumber, backgroundCircles) ==
    [newRandomNumber |-> IF isMiss THEN hash(randomNumber) ELSE randomNumber,
     newBgCircles |->
         IF isMiss
         THEN Append(backgroundCircles, generateRandomNote(randomNumber))
         ELSE backgroundCircles]

\* (fault variant of addRandomBgCircle: the seed is rehashed on every call)
addRandomBgCircleAlwaysRehash(isMiss, randomNumber, backgroundCircles) ==
    Bind(hash(randomNumber), LAMBDA newRandomNumber :
        [newRandomNumber |-> newRandomNumber,
         newBgCircles |->
             IF isMiss
             THEN Append(backgroundCircles, generateRandomNote(newRandomNumber))
             ELSE backgroundCircles])

addRandomBgCircle(isMiss, randomNumber, backgroundCircles) ==
    Bind(IF isMiss THEN hash(randomNumber) ELSE randomNumber,
         LAMBDA newRandomNumber :
        [newRandomNumber |-> newRandomNumber,
         newBgCircles |->
             IF isMiss
             THEN Append(backgroundCircles, generateRandomNote(newRandomNumber))
             ELSE backgroundCircles])

(***************************************************************************)
(* Actions (state.ts): each apply is a function from State to State        *)
(***************************************************************************)
moveCircle(c) == [c EXCEPT !.cy = c.cy + MOVEMENT]

\* (fault variant of moveTail: the end of a played tail stops one step short
\* of its head)
moveTailStopsShort(t) ==
    IF t.isPlayed
    THEN [t EXCEPT !.y1 = IF t.y1 >= TARGET_CY THEN t.y1 ELSE t.y1 + MOVEMENT,
                   !.y2 = IF t.y2 >= t.y1 - MOVEMENT THEN t.y2
                          ELSE t.y2 + MOVEMENT]
    ELSE [t EXCEPT !.y1 = t.y1 + MOVEMENT, !.y2 = t.y2 + MOVEMENT]

\* (fault variant of moveTail: the head of a played tail does not stop at the
\* target row)
moveTailHeadFalls(t) ==
    IF t.isPlayed
    THEN [t EXCEPT !.y1 = t.y1 + MOVEMENT,
                   !.y2 = IF t.y2 = t.y1 THEN t.y2 ELSE t.y2 + MOVEMENT]
    ELSE [t EXCEPT !.y1 = t.y1 + MOVEMENT, !.y2 = t.y2 + MOVEMENT]

moveTail(t) ==
    IF t.isPlayed
    THEN [t EXCEPT !.y1 = IF t.y1 >= TARGET_CY THEN t.y1 ELSE t.y1 + MOVEMENT,
                   !.y2 = IF t.y2 = t.y1 THEN t.y2 ELSE t.y2 + MOVEMENT]
    ELSE [t EXCEPT !.y1 = t.y1 + MOVEMENT, !.y2 = t.y2 + MOVEMENT]

\* (fault variant of isCircleExpired: a circle expires at the limit)
isCircleExpiredAtLimit(c) == c.cy >= EXPIRE_LIMIT
isCircleExpired(c) == c.cy > EXPIRE_LIMIT
isMissed(c) == c.cy > TARGET_CY + TARGET_RANGE
isTailExpired(t) == t.y2 > EXPIRE_LIMIT
\* (fault variant of isTailFullyPlayed: a tail counts as played one step
\* before its end reaches its head)
isTailFullyPlayedEarly(t) == t.y2 >= t.y1 - MOVEMENT
isTailFullyPlayed(t) == t.y2 = t.y1

TickApply(s) ==
    Bind(Filter(s.tails, isTailFullyPlayed), LAMBDA fullyPlayedTails :
    Bind(updateHitsAndMultiplier(Len(Filter(s.circles, isMissed)) > 0,
                                 s.consecutiveHits, Len(fullyPlayedTails)),
         LAMBDA u :
        [s EXCEPT
            !.backgroundCircles =
                Filter(Map(s.backgroundCircles, moveCircle),
                       LAMBDA c : c.cy <= TARGET_CY),
            !.circles =
                Map(Filter(s.circles, LAMBDA c : ~isCircleExpired(c)),
                    moveCircle),
            !.playedCircles = << >>,
            !.tails =
                Map(Map(Filter(Filter(s.tails, LAMBDA t : ~isTailExpired(t)),
                               LAMBDA t : ~isTailFullyPlayed(t)),
                        LAMBDA t : [t EXCEPT !.isStartNote = FALSE]),
                    moveTail),
            !.finishedTails = fullyPlayedTails,
            !.score = s.score
                        + Len(fullyPlayedTails) * SCORE_INCREASE
                            * u.newMultiplier,
            !.exit = Filter(s.circles, isCircleExpired)
                        \o Filter(s.tails, isTailExpired),
            !.consecutiveHits = u.newConsecutiveHits,
            !.multiplier = u.newMultiplier]))

\* Math.round(((end - start) * 1000 * MOVEMENT) / TICK_RATE_MS), the duration
\* being in milliseconds already; Math.round rounds a half up
tailLength(noteData) ==
    (2 * (noteData.end - noteData.start) * MOVEMENT + TICK_RATE_MS)
        \div (2 * TICK_RATE_MS)

\* (fault variant of CreateCircleApply: objCount is not incremented)
CreateCircleApplyStaleCount(s, noteData, minPitch, maxPitch) ==
    Bind(getColumnAndColour(noteData, minPitch, maxPitch), LAMBDA cc :
    Bind([id |-> [kind |-> "circle", n |-> s.objCount],
          cx |-> cc.column,
          cy |-> START_CY,
          colour |-> cc.colour,
          note |-> noteData,
          hasTail |-> noteData.end - noteData.start > DURATION_FOR_TAIL],
         LAMBDA newCircle :
        [s EXCEPT
            !.circles = Append(s.circles, newCircle),
            !.tails =
                IF newCircle.hasTail
                THEN Append(s.tails,
                            [id |-> [kind |-> "tail", n |-> s.objCount],
                             x1 |-> cc.column,
                             y1 |-> START_CY,
                             x2 |-> cc.column,
                             y2 |-> START_CY - tailLength(noteData),
                             colour |-> cc.colour,
                             isPlayed |-> FALSE,
                             isStartNote |-> FALSE,
                             circle |-> newCircle])
                ELSE s.tails]))

\* (fault variant of CreateCircleApply: a note of DURATION_FOR_TAIL has a tail)
CreateCircleApplyTailAtThreshold(s, noteData, minPitch, maxPitch) ==
    Bind(getColumnAndColour(noteData, minPitch, maxPitch), LAMBDA cc :
    Bind([id |-> [kind |-> "circle", n |-> s.objCount],
          cx |-> cc.column,
          cy |-> START_CY,
          colour |-> cc.colour,
          note |-> noteData,
          hasTail |-> noteData.end - noteData.start >= DURATION_FOR_TAIL],
         LAMBDA newCircle :
        [s EXCEPT
            !.circles = Append(s.circles, newCircle),
            !.tails =
                IF newCircle.hasTail
                THEN Append(s.tails,
                            [id |-> [kind |-> "tail", n |-> s.objCount],
                             x1 |-> cc.column,
                             y1 |-> START_CY,
                             x2 |-> cc.column,
                             y2 |-> START_CY - tailLength(noteData),
                             colour |-> cc.colour,
                             isPlayed |-> FALSE,
                             isStartNote |-> FALSE,
                             circle |-> newCircle])
                ELSE s.tails,
            !.objCount = s.objCount + 1]))

CreateCircleApply(s, noteData, minPitch, maxPitch) ==
    Bind(getColumnAndColour(noteData, minPitch, maxPitch), LAMBDA cc :
    Bind([id |-> [kind |-> "circle", n |-> s.objCount],
          cx |-> cc.column,
          cy |-> START_CY,
          colour |-> cc.colour,
          note |-> noteData,
          hasTail |-> noteData.end - noteData.start > DURATION_FOR_TAIL],
         LAMBDA newCircle :
        [s EXCEPT
            !.circles = Append(s.circles, newCircle),
            !.tails =
                IF newCircle.hasTail
                THEN Append(s.tails,
                            [id |-> [kind |-> "tail", n |-> s.objCount],
                             x1 |-> cc.column,
                             y1 |-> START_CY,
                             x2 |-> cc.column,
                             y2 |-> START_CY - tailLength(noteData),
                             colour |-> cc.colour,
                             isPlayed |-> FALSE,
                             isStartNote |-> FALSE,
                             circle |-> newCircle])
                ELSE s.tails,
            !.objCount = s.objCount + 1]))

\* (fault variant of CreateBgCircleApply: the circle is created at the target
\* row)
CreateBgCircleApplyAtTarget(s, noteData) ==
    [s EXCEPT !.backgroundCircles =
                  Append(s.backgroundCircles,
                         [cy |-> TARGET_CY, note |-> noteData])]

CreateBgCircleApply(s, noteData) ==
    [s EXCEPT !.backgroundCircles =
                  Append(s.backgroundCircles,
                         [cy |-> START_CY, note |-> noteData])]

\* (fault variant of PressKeyApply: circles with tails are left to HoldKey one
\* by one, and a press that hits no circle without a tail is a miss)
PressKeyApplyIgnoresTails(s, key) ==
    Bind(Filter(s.circles,
                LAMBDA c : isCircleAligned(c, keyToColumn(key)) /\ ~c.hasTail),
         LAMBDA alignedCircles :
    Bind(Len(alignedCircles) = 0, LAMBDA isMiss :
    Bind(updateHitsAndMultiplier(isMiss, s.consecutiveHits, 1), LAMBDA u :
    Bind(addRandomBgCircle(isMiss, s.randomNumber, s.backgroundCircles),
         LAMBDA r :
        [s EXCEPT
            !.circles =
                Filter(s.circles,
                       LAMBDA c : ~isCircleAligned(c, keyToColumn(key))
                                      \/ c.hasTail),
            !.playedCircles = alignedCircles,
            !.score = s.score
                        + Len(alignedCircles) * SCORE_INCREASE
                            * u.newMultiplier,
            !.backgroundCircles = r.newBgCircles,
            !.consecutiveHits = u.newConsecutiveHits,
            !.multiplier = u.newMultiplier,
            !.randomNumber = r.newRandomNumber]))))

\* (fault variant of PressKeyApply: every aligned circle is one more hit)
PressKeyApplyHitPerCircle(s, key) ==
    Bind(initialisePressAndHoldKey(s, key), LAMBDA i :
    IF Len(i.alignedTailCircles) > 0 THEN s
    ELSE
    Bind(Len(i.alignedCircles) = 0, LAMBDA isMiss :
    Bind(updateHitsAndMultiplier(isMiss, s.consecutiveHits,
                                 Len(i.alignedCircles)),
         LAMBDA u :
    Bind(addRandomBgCircle(isMiss, s.randomNumber, s.backgroundCircles),
         LAMBDA r :
        [s EXCEPT
            !.circles = i.remainingCircles,
            !.playedCircles = i.alignedCircles,
            !.score = s.score
                        + Len(i.alignedCircles) * SCORE_INCREASE
                            * u.newMultiplier,
            !.backgroundCircles = r.newBgCircles,
            !.consecutiveHits = u.newConsecutiveHits,
            !.multiplier = u.newMultiplier,
            !.randomNumber = r.newRandomNumber]))))

PressKeyApply(s, key) ==
    Bind(initialisePressAndHoldKey(s, key), LAMBDA i :
    IF Len(i.alignedTailCircles) > 0 THEN s
    ELSE
    Bind(Len(i.alignedCircles) = 0, LAMBDA isMiss :
    Bind(updateHitsAndMultiplier(isMiss, s.consecutiveHits, 1), LAMBDA u :
    Bind(addRandomBgCircle(isMiss, s.randomNumber, s.backgroundCircles),
         LAMBDA r :
        [s EXCEPT
            !.circles = i.remainingCircles,
            !.playedCircles = i.alignedCircles,
            !.score = s.score
                        + Len(i.alignedCircles) * SCORE_INCREASE
                            * u.newMultiplier,
            !.backgroundCircles = r.newBgCircles,
            !.consecutiveHits = u.newConsecutiveHits,
            !.multiplier = u.newMultiplier,
            !.randomNumber = r.newRandomNumber]))))

\* except(eq)(a)(b): array a except anything in b (util.ts)
except(eq(_, _), a, b) ==
    Filter(a, LAMBDA e : ~(\E j \in 1..Len(b) : eq(e, b[j])))

\* (fault variant of HoldKeyApply: the circles of the tails it starts stay in
\* circles)
HoldKeyApplyKeepsCircles(s, key) ==
    Bind(initialisePressAndHoldKey(s, key), LAMBDA i :
    IF Len(i.alignedTailCircles) = 0 THEN s
    ELSE
    Bind(Map(Filter(s.tails,
                    LAMBDA t : Some(i.alignedTailCircles,
                                    LAMBDA c : c.id = t.circle.id)),
             LAMBDA t : [t EXCEPT !.isPlayed = TRUE, !.isStartNote = TRUE]),
         LAMBDA playedTails :
        [s EXCEPT
            !.playedCircles = s.playedCircles \o i.alignedTailCircles,
            !.tails =
                playedTails
                    \o except(LAMBDA a, b : a.id = b.id, s.tails, playedTails)]))

\* (fault variant of HoldKeyApply: every tail of the column is marked played)
HoldKeyApplyWholeColumn(s, key) ==
    Bind(initialisePressAndHoldKey(s, key), LAMBDA i :
    IF Len(i.alignedTailCircles) = 0 THEN s
    ELSE
    Bind(Map(Filter(s.tails, LAMBDA t : t.x1 = keyToColumn(key)),
             LAMBDA t : [t EXCEPT !.isPlayed = TRUE, !.isStartNote = TRUE]),
         LAMBDA playedTails :
        [s EXCEPT
            !.circles = i.remainingCircles,
            !.playedCircles = s.playedCircles \o i.alignedTailCircles,
            !.tails =
                playedTails
                    \o except(LAMBDA a, b : a.id = b.id, s.tails, playedTails)]))

HoldKeyApply(s, key) ==
    Bind(initialisePressAndHoldKey(s, key), LAMBDA i :
    IF Len(i.alignedTailCircles) = 0 THEN s
    ELSE
    Bind(Map(Filter(s.tails,
                    LAMBDA t : Some(i.alignedTailCircles,
                                    LAMBDA c : c.id = t.circle.id)),
             LAMBDA t : [t EXCEPT !.isPlayed = TRUE, !.isStartNote = TRUE]),
         LAMBDA playedTails :
        [s EXCEPT
            !.circles = i.remainingCircles,
            !.playedCircles = s.playedCircles \o i.alignedTailCircles,
            !.tails =
                playedTails
                    \o except(LAMBDA a, b : a.id = b.id, s.tails, playedTails)]))

\* (fault variant of ReleaseKeyApply: no early return)
ReleaseKeyApplyAlways(s, key) ==
    Bind(keyToColumn(key), LAMBDA cx :
    Bind(Filter(Filter(s.tails, LAMBDA t : t.isPlayed), LAMBDA t : t.x1 = cx),
         LAMBDA playedTails :
    Bind(Map(playedTails,
             LAMBDA t : [t EXCEPT !.isPlayed = isTailEndAligned(t, cx)]),
         LAMBDA updatedPlayedTails :
    Bind(Len(Filter(updatedPlayedTails,
                    LAMBDA t : isTailEndAligned(t, cx))) = 0,
         LAMBDA isMiss :
    Bind(updateHitsAndMultiplier(isMiss, s.consecutiveHits, 0), LAMBDA u :
    Bind(addRandomBgCircle(isMiss, s.randomNumber, s.backgroundCircles),
         LAMBDA r :
        [s EXCEPT
            !.tails =
                updatedPlayedTails
                    \o Filter(s.tails,
                              LAMBDA t : ~Some(playedTails,
                                               LAMBDA pt : pt.id = t.id)),
            !.backgroundCircles = r.newBgCircles,
            !.consecutiveHits = u.newConsecutiveHits,
            !.multiplier = u.newMultiplier,
            !.randomNumber = r.newRandomNumber]))))))

ReleaseKeyApply(s, key) ==
    Bind(keyToColumn(key), LAMBDA cx :
    Bind(Filter(Filter(s.tails, LAMBDA t : t.isPlayed), LAMBDA t : t.x1 = cx),
         LAMBDA playedTails :
    IF Len(playedTails) = 0 /\ Len(s.finishedTails) = 0 THEN s
    ELSE
    Bind(Map(playedTails,
             LAMBDA t : [t EXCEPT !.isPlayed = isTailEndAligned(t, cx)]),
         LAMBDA updatedPlayedTails :
    Bind(Len(Filter(updatedPlayedTails,
                    LAMBDA t : isTailEndAligned(t, cx))) = 0,
         LAMBDA isMiss :
    Bind(updateHitsAndMultiplier(isMiss, s.consecutiveHits, 0), LAMBDA u :
    Bind(addRandomBgCircle(isMiss, s.randomNumber, s.backgroundCircles),
         LAMBDA r :
        [s EXCEPT
            !.tails =
                updatedPlayedTails
                    \o Filter(s.tails,
                              LAMBDA t : ~Some(playedTails,
                                               LAMBDA pt : pt.id = t.id)),
            !.backgroundCircles = r.newBgCircles,
            !.consecutiveHits = u.newConsecutiveHits,
            !.multiplier = u.newMultiplier,
            !.randomNumber = r.newRandomNumber]))))))

EndGameApply(s) == [s EXCEPT !.gameEnd = TRUE]

\* action.apply(s) for an action record
apply(a, s) ==
    CASE a.kind = "Tick" -> TickApply(s)
      [] a.kind = "CreateCircle" ->
             CreateCircleApply(s, a.noteData, a.minPitch, a.maxPitch)
      [] a.kind = "CreateBgCircle" -> CreateBgCircleApply(s, a.noteData)
      [] a.kind = "PressKey" -> PressKeyApply(s, a.key)
      [] a.kind = "HoldKey" -> HoldKeyApply(s, a.key)
      [] a.kind = "ReleaseKey" -> ReleaseKeyApply(s, a.key)
      [] a.kind = "EndGame" -> EndGameApply(s)

\* (fault variant of reduceState: the end of the game is not checked)
reduceStateUnguarded(s, a) == apply(a, s)

\* (fault variant of reduceState: the guard tests the State the action
\* returned)
reduceStateGuardsResult(s, a) == IF apply(a, s).gameEnd THEN s ELSE apply(a, s)

\* the state transducer: once the game has ended the state no longer changes
reduceState(s, a) == IF s.gameEnd THEN s ELSE apply(a, s)

(***************************************************************************)
(* The driver (main.ts): the action stream merges the clock, the key streams and the *)
(* spawn streams of the song script, and scan(reduceState, initialState)   *)
(* folds them; every state the fold passes through is emitted.             *)
(***************************************************************************)
\* The song script: the playable notes and the background notes
shortLow ==
    [userPlayed |-> TRUE, instrumentName |-> "piano", velocity |-> 80,
     pitch |-> 60, start |-> 0, end |-> 500]
longLow ==
    [userPlayed |-> TRUE, instrumentName |-> "piano", velocity |-> 80,
     pitch |-> 60, start |-> 0, end |-> 1005]
exactLow ==
    [userPlayed |-> TRUE, instrumentName |-> "piano", velocity |-> 80,
     pitch |-> 60, start |-> 0, end |-> 1000]
shortHigh ==
    [userPlayed |-> TRUE, instrumentName |-> "piano", velocity |-> 80,
     pitch |-> 64, start |-> 0, end |-> 500]
background ==
    [userPlayed |-> FALSE, instrumentName |-> "violin", velocity |-> 60,
     pitch |-> 50, start |-> 0, end |-> 500]

arrayOfNoteData == <<shortLow, exactLow, longLow, shortHigh, background>>

pitches ==
    {arrayOfNoteData[i].pitch :
        i \in {j \in DOMAIN arrayOfNoteData : arrayOfNoteData[j].userPlayed}}
minPitch == CHOOSE x \in pitches : \A y \in pitches : x <= y
maxPitch == CHOOSE x \in pitches : \A y \in pitches : x >= y

\* The actions the streams deliver
Tick == [kind |-> "Tick"]
CreateCircle(noteData) ==
    [kind |-> "CreateCircle", noteData |-> noteData,
     minPitch |-> minPitch, maxPitch |-> maxPitch]
CreateBgCircle(noteData) == [kind |-> "CreateBgCircle", noteData |-> noteData]
PressKey(key) == [kind |-> "PressKey", key |-> key]
HoldKey(key) == [kind |-> "HoldKey", key |-> key]
ReleaseKey(key) == [kind |-> "ReleaseKey", key |-> key]
EndGame == [kind |-> "EndGame"]

circleStream ==
    {CreateCircle(arrayOfNoteData[i]) :
        i \in {j \in DOMAIN arrayOfNoteData : arrayOfNoteData[j].userPlayed}}
bgCircleStream ==
    {CreateBgCircle(arrayOfNoteData[i]) :
        i \in {j \in DOMAIN arrayOfNoteData : ~arrayOfNoteData[j].userPlayed}}

\* scan(reduceState, s) over n Ticks, and over a sequence of actions in which
\* [kind |-> "Ticks", n |-> n] stands for n Ticks in a row; both fold the
\* first half and then, from the State reached, the second half
RECURSIVE Ticks(_, _)
Ticks(s, n) ==
    IF n = 0 THEN s
    ELSE IF n = 1 THEN reduceState(s, Tick)
    ELSE Bind(Ticks(s, n \div 2), LAMBDA half : Ticks(half, n - n \div 2))

RECURSIVE scan(_, _)
scan(s, actions) ==
    IF Len(actions) = 0 THEN s
    ELSE IF Len(actions) = 1
    THEN IF actions[1].kind = "Ticks" THEN Ticks(s, actions[1].n)
         ELSE reduceState(s, actions[1])
    ELSE Bind(scan(s, SubSeq(actions, 1, Len(actions) \div 2)),
              LAMBDA half :
                  scan(half, SubSeq(actions, Len(actions) \div 2 + 1,
                                    Len(actions))))

RECURSIVE Repeat(_, _)
Repeat(actions, n) == IF n = 0 THEN << >> ELSE actions \o Repeat(actions, n - 1)

T(n) == [kind |-> "Ticks", n |-> n]

\* A keydown event of a column key passes the filters of pressKey$ and of
\* holdKey$, in the order in which merge subscribes them, and a keyup event
\* that of releaseKey$
keyDown(k) == <<PressKey(k), HoldKey(k)>>
keyUp(k) == <<ReleaseKey(k)>>

(***************************************************************************)
(* Bound of the exploration.  A behaviour starts in a state the fold       *)
(* reaches from initialState (the prefix of a game, see Prefixes) and then *)
(* takes up to MaxSteps actions, any the streams can deliver.              *)
(***************************************************************************)
MaxSteps == 4

\* The same bound for the behaviours in which the driver records the actions
\* it delivers, so that the fold can be replayed (see SpecReplay)
MaxReplay == 3

\* The positions, in Ticks after its spawn, at which a prefix leaves a circle:
\* one Tick before the scoring window, before its end, and before expiry
Approach ==
    {TARGET_CY - TARGET_RANGE - 1, TARGET_CY + TARGET_RANGE - 1, EXPIRE_LIMIT - 1}

\* Game prefixes, each a sequence of actions folded from initialState
Prefixes ==
    {[name |-> "start", actions |-> << >>]}
    \cup {[name |-> "tap", actions |-> <<CreateCircle(shortLow), T(k)>>] :
            k \in Approach}
    \cup {[name |-> "chord",
           actions |-> <<CreateCircle(shortLow), T(TARGET_RANGE \div 2),
                         CreateCircle(shortLow), CreateCircle(shortHigh),
                         T(TARGET_CY - TARGET_RANGE - 1)>>]}
    \cup {[name |-> "tailed", actions |-> <<CreateCircle(longLow), T(k)>>] :
            k \in Approach}
    \cup {[name |-> "mixed",
           actions |-> <<CreateCircle(shortLow), CreateCircle(longLow),
                         T(TARGET_CY - TARGET_RANGE - 1)>>]}
    \cup {[name |-> "held",
           actions |-> <<CreateCircle(longLow), T(k)>> \o keyDown("KeyH")
                           \o <<T(tailLength(longLow) - d)>>] :
            k \in {TARGET_CY, TARGET_CY + TARGET_RANGE},
            d \in {1, TARGET_RANGE + 1}}
    \cup {[name |-> "twoTails",
           actions |-> <<CreateCircle(longLow), T(TARGET_RANGE),
                         CreateCircle(longLow), T(TARGET_CY - TARGET_RANGE)>>
                           \o keyDown("KeyH")
                           \o <<T(tailLength(longLow) - TARGET_RANGE)>>]}
    \cup {[name |-> "expiring",
           actions |-> <<CreateCircle(longLow),
                         T(EXPIRE_LIMIT + tailLength(longLow))>>]}
    \cup {[name |-> "heldAndMissed",
           actions |-> <<CreateCircle(longLow),
                         T(tailLength(longLow) - TARGET_RANGE - 1),
                         CreateCircle(shortLow),
                         T(TARGET_CY - tailLength(longLow) + TARGET_RANGE + 1)>>
                           \o keyDown("KeyH")
                           \o <<T(tailLength(longLow) - 1)>>]}
    \cup {[name |-> "passed",
           actions |-> <<CreateCircle(shortLow), T(TARGET_RANGE + 2 * MOVEMENT),
                         CreateCircle(shortHigh), T(TARGET_CY)>>]}
    \cup {[name |-> "combo",
           actions |->
               Repeat(<<CreateCircle(shortLow), T(TARGET_CY)>>
                          \o keyDown("KeyH") \o keyUp("KeyH"),
                      HITS_PER_MULTIPLIER_INCREASE - 1)
               \o <<CreateCircle(shortLow), T(TARGET_CY - 1)>>]}

\* (fault variant of switchMap: the inner subscription of the abandoned game
\* is kept, as mergeMap would keep it)
switchMapKeepsInner(inner, g) == inner \cup {g}

\* switchMap: subscribing to the inner observable of game g unsubscribes from
\* the one before it, which cancels its interval, its timers and its listeners
switchMap(inner, g) == {g}

VARIABLES
    state,      \* the accumulator of scan: the last State emitted
    prev,       \* the State the last action was applied to
    action,     \* the last action delivered by the action stream
    prefix,     \* the name of the game prefix the behaviour started from
    finishedLog,\* the ids of the tails the Ticks of this game finished
    released,   \* the ids of the tails a ReleaseKey of this game marked unplayed
    pendingHold,\* the key whose keydown has yet to deliver its HoldKey
    start,      \* the State from which the actions of history were folded
    recording,  \* whether the actions delivered are recorded in history
    history,    \* the actions delivered to this game since start, if recorded
    game,       \* the number of restarts so far
    subscribed, \* the games whose inner observable is subscribed
    source,     \* the game whose inner observable delivered the last action
    abandoned,  \* the last State of the game the last restart abandoned
    nSteps,     \* the number of events since the prefix
    keyDownState,\* the State the PressKey of the last keydown was applied to
    timers,     \* the one-shot timers of the game that have yet to fire
    elapsed     \* the number of Ticks the interval has delivered, if timed

vars ==
    <<state, prev, action, prefix, finishedLog, released, pendingHold, start,
      recording, history, game, subscribed, source, abandoned, nSteps,
      keyDownState, timers, elapsed>>

\* the number of events a behaviour may take
Bound == IF recording THEN MaxReplay ELSE MaxSteps

\* startWith: the game begins in the State s, reached by the prefix of that
\* name
InitGame(s, name, rec) ==
    /\ recording = rec
    /\ state = s
    /\ prev = state
    /\ action = [kind |-> "startWith"]
    /\ prefix = name
    /\ finishedLog = << >>
    /\ released = {}
    /\ pendingHold = "none"
    /\ start = state
    /\ history = << >>
    /\ game = 0
    /\ subscribed = {0}
    /\ source = 0
    /\ abandoned = "none"
    /\ nSteps = 0
    /\ keyDownState = "none"

InitWith(rec) ==
    /\ \E p \in Prefixes :
           InitGame(scan(initialState, p.actions), p.name, rec)
    /\ timers = {}
    /\ elapsed = 0

Init == InitWith(FALSE)
InitReplay == InitWith(TRUE)

\* the ids of the tails that are played in s and not played in t
MarkedUnplayed(s, t) ==
    {t.tails[j].id :
        j \in {i \in 1..Len(t.tails) :
                  /\ ~t.tails[i].isPlayed
                  /\ \E k \in 1..Len(s.tails) :
                         /\ s.tails[k].id = t.tails[i].id
                         /\ s.tails[k].isPlayed}}

\* (fault variant of Deliver: the seed is read from the time of delivery, not
\* from the accumulator)
DeliverTimed(a) ==
    /\ state' = reduceState([state EXCEPT !.randomNumber =
                                [int |-> nSteps, tenths |-> 0]], a)
    /\ prev' = state
    /\ action' = a
    /\ finishedLog' =
           IF a.kind = "Tick" /\ ~state.gameEnd
           THEN finishedLog \o Map(state'.finishedTails, LAMBDA t : t.id)
           ELSE finishedLog
    /\ released' =
           IF a.kind = "ReleaseKey" /\ ~state.gameEnd
           THEN released \cup MarkedUnplayed(state, state')
           ELSE released
    /\ history' = IF recording THEN Append(history, a) ELSE history
    /\ source' \in subscribed
    /\ nSteps' = nSteps + 1
    /\ keyDownState' =
           IF a.kind = "PressKey" THEN state
           ELSE IF a.kind = "HoldKey" THEN keyDownState
           ELSE "none"
    /\ UNCHANGED <<prefix, start, recording, game, subscribed, abandoned,
                   timers, elapsed>>

\* scan(reduceState, ...): the fold applies the action a to the accumulator
\* and emits the result
Emit(a) ==
    /\ state' = reduceState(state, a)
    /\ prev' = state
    /\ action' = a
    /\ finishedLog' =
           IF a.kind = "Tick" /\ ~state.gameEnd
           THEN finishedLog \o Map(state'.finishedTails, LAMBDA t : t.id)
           ELSE finishedLog
    /\ released' =
           IF a.kind = "ReleaseKey" /\ ~state.gameEnd
           THEN released \cup MarkedUnplayed(state, state')
           ELSE released
    /\ history' = IF recording THEN Append(history, a) ELSE history
    /\ source' \in subscribed
    /\ keyDownState' =
           IF a.kind = "PressKey" THEN state
           ELSE IF a.kind = "HoldKey" THEN keyDownState
           ELSE "none"
    /\ UNCHANGED <<prefix, start, recording, game, subscribed, abandoned>>

\* the same, counted as one more event
Fold(a) ==
    /\ Emit(a)
    /\ nSteps' = nSteps + 1

\* an action a that a stream of the untimed driver delivers to the fold
Deliver(a) ==
    /\ Fold(a)
    /\ UNCHANGED <<timers, elapsed>>

\* gameClock$: a Tick every TICK_RATE_MS
gameClock ==
    /\ nSteps < Bound
    /\ pendingHold = "none"
    /\ Deliver(Tick)
    /\ UNCHANGED pendingHold

\* circle$: the playable notes of the song
circle ==
    /\ nSteps < Bound
    /\ pendingHold = "none"
    /\ \E a \in circleStream : Deliver(a)
    /\ UNCHANGED pendingHold

\* bgCircle$: the background notes of the song
bgCircle ==
    /\ nSteps < Bound
    /\ pendingHold = "none"
    /\ \E a \in bgCircleStream : Deliver(a)
    /\ UNCHANGED pendingHold

\* pressKey$: a keydown of a column key that is not a repeat; the same event
\* goes on to holdKey$
pressKey ==
    /\ nSteps < Bound
    /\ pendingHold = "none"
    /\ \E k \in ColumnKeys : Deliver(PressKey(k)) /\ pendingHold' = k

\* holdKey$: the keydown that pressKey$ has just passed
holdKey ==
    /\ nSteps < Bound
    /\ pendingHold # "none"
    /\ Deliver(HoldKey(pendingHold))
    /\ pendingHold' = "none"

\* releaseKey$: a keyup of a column key
releaseKey ==
    /\ nSteps < Bound
    /\ pendingHold = "none"
    /\ \E k \in ColumnKeys : Deliver(ReleaseKey(k))
    /\ UNCHANGED pendingHold

\* endGame$: the timer after the last note of the song
endGame ==
    /\ nSteps < Bound
    /\ pendingHold = "none"
    /\ Deliver(EndGame)
    /\ UNCHANGED pendingHold

\* restart$: a keydown of KeyR; switchMap unsubscribes from the running game
\* and subscribes to a new action$, whose startWith emits initialState
restart ==
    /\ nSteps < Bound
    /\ pendingHold = "none"
    /\ game' = game + 1
    /\ subscribed' = switchMap(subscribed, game + 1)
    /\ state' = initialState
    /\ prev' = initialState
    /\ action' = [kind |-> "startWith"]
    /\ start' = initialState
    /\ history' = << >>
    /\ finishedLog' = << >>
    /\ released' = {}
    /\ source' = game + 1
    /\ abandoned' = state
    /\ nSteps' = nSteps + 1
    /\ keyDownState' = "none"
    /\ UNCHANGED <<prefix, pendingHold, recording, timers, elapsed>>

Next ==
    \/ restart
    \/ gameClock
    \/ pressKey
    \/ holdKey
    \/ releaseKey
    \/ bgCircle
    \/ circle
    \/ endGame

Spec == Init /\ [][Next]_vars

\* the same driver, recording the actions it delivers
SpecReplay == InitReplay /\ [][Next]_vars

(***************************************************************************)
(* The columns of the circles.  circle$ gives every CreateCircle the       *)
(* minPitch and maxPitch of the playable notes of the script; here the     *)
(* script is any: each spawn is a note of any pitch within any             *)
(* minPitch <= maxPitch of 0..MaxPitch, up to MaxSpawns spawns.            *)
(***************************************************************************)
MaxPitch == 7
MaxSpawns == 2

InitPitch ==
    /\ InitGame(initialState, "start", FALSE)
    /\ timers = {}
    /\ elapsed = 0

spawn ==
    /\ nSteps < MaxSpawns
    /\ \E lo \in 0..MaxPitch, hi \in 0..MaxPitch, pitch \in 0..MaxPitch :
           /\ lo <= pitch /\ pitch <= hi
           /\ Deliver([kind |-> "CreateCircle",
                       noteData |-> [shortLow EXCEPT !.pitch = pitch],
                       minPitch |-> lo, maxPitch |-> hi])
    /\ UNCHANGED pendingHold

SpecPitch == InitPitch /\ [][spawn]_vars

(***************************************************************************)
(* The schedule of a game.  interval(TICK_RATE_MS) delivers the Tick       *)
(* number n at n * TICK_RATE_MS; delay(noteData.start * 1000) delivers the *)
(* CreateBgCircle or CreateCircle of a note at its start and               *)
(* timer(gameEndTime) the EndGame.  Timers due at the same time fire in    *)
(* the order merge and from(arrayOfNoteData) subscribed to them; a timer   *)
(* and a Tick due at the same time fire in either order.  The player       *)
(* presses a key when a circle with a tail is aligned in its column, and   *)
(* then holds it down to the end of the game.  Times are in ms.            *)
(***************************************************************************)
lastNoteEnd ==
    CHOOSE e \in {arrayOfNoteData[i].end : i \in DOMAIN arrayOfNoteData} :
        \A i \in DOMAIN arrayOfNoteData : arrayOfNoteData[i].end <= e
topToBottomTime == ((TARGET_CY - START_CY) \div MOVEMENT) * TICK_RATE_MS
gameEndTime == lastNoteEnd + topToBottomTime

Timers ==
    {[at |-> arrayOfNoteData[i].start,
      order |-> IF arrayOfNoteData[i].userPlayed
                THEN Len(arrayOfNoteData) + i ELSE i,
      a |-> IF arrayOfNoteData[i].userPlayed
            THEN CreateCircle(arrayOfNoteData[i])
            ELSE CreateBgCircle(arrayOfNoteData[i])] :
        i \in DOMAIN arrayOfNoteData}
    \cup {[at |-> gameEndTime, order |-> 2 * Len(arrayOfNoteData) + 1,
           a |-> EndGame]}

\* the time of the next Tick of the interval
nextTick == (elapsed + 1) * TICK_RATE_MS

\* the timer t is the next to fire, and no Tick is due before it
Due(t) ==
    /\ t \in timers
    /\ t.at <= nextTick
    /\ \A u \in timers :
           t.at < u.at \/ (t.at = u.at /\ t.order <= u.order)

InitSchedule ==
    /\ InitGame(initialState, "start", FALSE)
    /\ timers = Timers
    /\ elapsed = 0

\* gameClock$ at its time
tickDue ==
    /\ ~state.gameEnd
    /\ pendingHold = "none"
    /\ \A t \in timers : t.at >= nextTick
    /\ Fold(Tick)
    /\ elapsed' = elapsed + 1
    /\ UNCHANGED <<timers, pendingHold>>

\* bgCircle$ at the start of a background note
bgCircleDue ==
    /\ pendingHold = "none"
    /\ \E t \in timers :
           /\ Due(t)
           /\ t.a.kind = "CreateBgCircle"
           /\ Fold(t.a)
           /\ timers' = timers \ {t}
    /\ UNCHANGED <<elapsed, pendingHold>>

\* circle$ at the start of a playable note
circleDue ==
    /\ pendingHold = "none"
    /\ \E t \in timers :
           /\ Due(t)
           /\ t.a.kind = "CreateCircle"
           /\ Fold(t.a)
           /\ timers' = timers \ {t}
    /\ UNCHANGED <<elapsed, pendingHold>>

\* endGame$ at gameEndTime
endGameDue ==
    /\ pendingHold = "none"
    /\ \E t \in timers :
           /\ Due(t)
           /\ t.a.kind = "EndGame"
           /\ Fold(t.a)
           /\ timers' = timers \ {t}
    /\ UNCHANGED <<elapsed, pendingHold>>

\* pressKey$: the keydown of a key in whose column a circle with a tail is
\* aligned
pressAligned ==
    /\ ~state.gameEnd
    /\ pendingHold = "none"
    /\ \E k \in ColumnKeys :
           /\ Len(initialisePressAndHoldKey(state, k).alignedTailCircles) > 0
           /\ Fold(PressKey(k))
           /\ pendingHold' = k
    /\ UNCHANGED <<timers, elapsed>>

\* holdKey$: the same keydown
holdAligned ==
    /\ pendingHold # "none"
    /\ Fold(HoldKey(pendingHold))
    /\ pendingHold' = "none"
    /\ UNCHANGED <<timers, elapsed>>

NextSchedule ==
    \/ tickDue
    \/ bgCircleDue
    \/ circleDue
    \/ endGameDue
    \/ pressAligned
    \/ holdAligned

SpecSchedule == InitSchedule /\ [][NextSchedule]_vars

(***************************************************************************)
(* The game left to run.  The player does up to MaxLive things at the keys *)
(* (the Ticks in between count too), from any of the game prefixes, and    *)
(* then lets go; the interval goes on delivering Ticks for ever, so the    *)
(* Tick is taken again and again, and the HoldKey of a keydown follows its *)
(* PressKey at once.  The game does not end.                               *)
(***************************************************************************)
MaxLive == 4

\* gameClock$
tickLive ==
    /\ pendingHold = "none"
    /\ Emit(Tick)
    /\ nSteps' = IF nSteps < MaxLive THEN nSteps + 1 ELSE nSteps
    /\ UNCHANGED <<pendingHold, timers, elapsed>>

\* pressKey$
pressLive ==
    /\ nSteps < MaxLive
    /\ pendingHold = "none"
    /\ \E k \in ColumnKeys : Fold(PressKey(k)) /\ pendingHold' = k
    /\ UNCHANGED <<timers, elapsed>>

\* holdKey$
holdLive ==
    /\ pendingHold # "none"
    /\ Fold(HoldKey(pendingHold))
    /\ pendingHold' = "none"
    /\ UNCHANGED <<timers, elapsed>>

\* releaseKey$
releaseLive ==
    /\ nSteps < MaxLive
    /\ pendingHold = "none"
    /\ \E k \in ColumnKeys : Fold(ReleaseKey(k))
    /\ UNCHANGED <<pendingHold, timers, elapsed>>

NextLive ==
    \/ tickLive
    \/ pressLive
    \/ holdLive
    \/ releaseLive

SpecLive ==
    /\ Init
    /\ [][NextLive]_vars
    /\ WF_vars(tickLive)
    /\ WF_vars(holdLive)

(***************************************************************************)
(* The filler notes.  A miss passes hash(randomNumber) to                  *)
(* generateRandomNote; hash returns (a * seed + c) % m, a double of        *)
(* 0 <= seed < m.  Here the value hash returns is any of the integers and  *)
(* halves within MaxSeedOffset of either end of that range.                *)
(***************************************************************************)
MaxSeedOffset == 31

Seeds ==
    {[int |-> i, tenths |-> t] :
        i \in (0..MaxSeedOffset) \cup {RNG_m1 - d : d \in 0..MaxSeedOffset},
        t \in {0, 5}}

InitNote ==
    /\ InitGame(initialState, "start", FALSE)
    /\ timers = {}
    /\ elapsed = 0

\* addRandomBgCircle on a miss, hash having returned newRandomNumber
missWith ==
    /\ nSteps = 0
    /\ \E newRandomNumber \in Seeds :
           state' = [state EXCEPT
                        !.randomNumber = newRandomNumber,
                        !.backgroundCircles =
                            Append(state.backgroundCircles,
                                   generateRandomNote(newRandomNumber))]
    /\ prev' = state
    /\ action' = [kind |-> "addRandomBgCircle"]
    /\ nSteps' = nSteps + 1
    /\ UNCHANGED <<prefix, finishedLog, released, pendingHold, start,
                   recording, history, game, subscribed, source, abandoned,
                   keyDownState, timers, elapsed>>

SpecNote == InitNote /\ [][missWith]_vars

(***************************************************************************)
(* Properties.  A step is a state in which an action has been delivered:   *)
(* prev is the State it was applied to and state the State reduceState     *)
(* returned.  Scores and multipliers are in tenths.                        *)
(***************************************************************************)
Step == action.kind # "startWith"
Running == Step /\ ~prev.gameEnd
Did(kind) == Running /\ action.kind = kind

Ids(a) == {a[i].id : i \in 1..Len(a)}
DistinctIds(a) == \A i, j \in 1..Len(a) : i # j => a[i].id # a[j].id

\* the scoring window of a circle, and that of the end of a tail
InWindow(cy) == TARGET_CY - TARGET_RANGE <= cy /\ cy <= TARGET_CY + TARGET_RANGE
InTailWindow(y2) == TARGET_CY - TARGET_RANGE <= y2 /\ y2 <= TARGET_CY

\* the circles of s aligned with the key, and the others
AlignedWith(s, key) ==
    SelectSeq(s.circles,
              LAMBDA c : c.cx = keyToColumn(key) /\ InWindow(c.cy))
NotAlignedWith(s, key) ==
    SelectSeq(s.circles,
              LAMBDA c : ~(c.cx = keyToColumn(key) /\ InWindow(c.cy)))

\* the played tails of s in the column of the key
PlayedIn(s, key) ==
    SelectSeq(s.tails, LAMBDA t : t.isPlayed /\ t.x1 = keyToColumn(key))

\* 1 + floor(h / 10) * 0.2, in tenths
MultiplierFor(h) == 10 + 2 * (h \div 10)

\* a miss: combo and multiplier are reset
ComboReset == state.consecutiveHits = 0 /\ state.multiplier = 10

(***************************************************************************)
(* C1: once gameEnd is true, every action (Tick, CreateCircle,             *)
(* CreateBgCircle, PressKey, HoldKey, ReleaseKey, EndGame) returns the     *)
(* state it was given, every field unchanged; so every snapshot after the  *)
(* first ended one is identical to it.                                     *)
(***************************************************************************)
C1_EndedStateIsFrozen == (Step /\ prev.gameEnd) => state = prev

\* a Tick delivered after the end to a state with a circle to move
C1_TickAfterEnd ==
    /\ Step /\ prev.gameEnd
    /\ action.kind = "Tick"
    /\ Len(prev.circles) > 0
    /\ state = prev

(***************************************************************************)
(* C2: in every reachable state the multiplier is                          *)
(* 1 + floor(consecutiveHits / 10) * 0.2 (one decimal); in particular a    *)
(* multiplier reset to 1 by a miss comes with consecutiveHits = 0.         *)
(***************************************************************************)
C2_MultiplierFollowsHits ==
    /\ state.multiplier = MultiplierFor(state.consecutiveHits)
    /\ state.consecutiveHits >= 0

\* the tenth hit in a row has raised the multiplier to 1.2
C2_TenthHit ==
    /\ Did("PressKey")
    /\ prev.consecutiveHits = 9 /\ prev.multiplier = 10
    /\ state.consecutiveHits = 10 /\ state.multiplier = 12

(***************************************************************************)
(* C3, as stated: every PressKey with no aligned circle in the key's       *)
(* column, every ReleaseKey with no played tail of the column whose y2 is  *)
(* in the scoring window, and every Tick with a circle below               *)
(* TARGET_CY + TARGET_RANGE leaves consecutiveHits = 0 and multiplier = 1. *)
(***************************************************************************)
C3_AsStated ==
    /\ (Did("PressKey") /\ Len(AlignedWith(prev, action.key)) = 0)
           => ComboReset
    /\ (Did("ReleaseKey")
            /\ \A i \in 1..Len(PlayedIn(prev, action.key)) :
                   ~InTailWindow(PlayedIn(prev, action.key)[i].y2))
           => ComboReset
    /\ (Did("Tick")
            /\ \E i \in 1..Len(prev.circles) :
                   prev.circles[i].cy > TARGET_CY + TARGET_RANGE)
           => ComboReset

(***************************************************************************)
(* C3, amended: as above, but for ReleaseKey only when the release is not  *)
(* the no-op, that is when the column has a played tail or finishedTails   *)
(* is not empty; a release with nothing to release and nothing finished    *)
(* computes no miss and leaves the combo as it is.                         *)
(***************************************************************************)
C3_MissResetsCombo ==
    /\ (Did("PressKey") /\ Len(AlignedWith(prev, action.key)) = 0)
           => ComboReset
    /\ (Did("ReleaseKey")
            /\ (Len(PlayedIn(prev, action.key)) > 0
                    \/ Len(prev.finishedTails) > 0)
            /\ \A i \in 1..Len(PlayedIn(prev, action.key)) :
                   ~InTailWindow(PlayedIn(prev, action.key)[i].y2))
           => ComboReset
    /\ (Did("Tick")
            /\ \E i \in 1..Len(prev.circles) :
                   prev.circles[i].cy > TARGET_CY + TARGET_RANGE)
           => ComboReset
    /\ (Did("ReleaseKey")
            /\ Len(PlayedIn(prev, action.key)) = 0
            /\ Len(prev.finishedTails) = 0)
           => state = prev

\* a release computing a miss has reset a combo that was not zero
C3_ReleaseResetsCombo ==
    /\ Did("ReleaseKey")
    /\ prev.consecutiveHits > 0
    /\ state.consecutiveHits = 0 /\ state.multiplier = 10
    /\ state.randomNumber # prev.randomNumber

(***************************************************************************)
(* C4: objCount never decreases, no two circles in circles and no two      *)
(* tails in tails share an id, and the counter in the id of every live     *)
(* circle or tail is less than objCount.                                   *)
(***************************************************************************)
C4_IdsAreFresh ==
    /\ state.objCount >= prev.objCount
    /\ DistinctIds(state.circles)
    /\ DistinctIds(state.tails)
    /\ \A id \in Ids(state.circles) \cup Ids(state.tails) :
           id.n < state.objCount

\* a CreateCircle has added a circle and a tail to a board that had some
C4_SecondTailCreated ==
    /\ Did("CreateCircle")
    /\ Len(prev.circles) > 0
    /\ Len(state.circles) = Len(prev.circles) + 1
    /\ Len(state.tails) >= 2
    /\ state.objCount = prev.objCount + 1

(***************************************************************************)
(* C5: PressKey(key) with at least one circle aligned in the key's column  *)
(* and no aligned circle with a tail: playedCircles becomes exactly the    *)
(* aligned circles, and circles keeps exactly the others, unchanged.       *)
(***************************************************************************)
C5_PressTakesTheAligned ==
    (/\ Did("PressKey")
     /\ Len(AlignedWith(prev, action.key)) >= 1
     /\ \A i \in 1..Len(AlignedWith(prev, action.key)) :
            ~AlignedWith(prev, action.key)[i].hasTail)
        => /\ state.playedCircles = AlignedWith(prev, action.key)
           /\ state.circles = NotAlignedWith(prev, action.key)

\* a press has taken one circle of its column and left another circle of the
\* column, outside the window, and a circle of another column
C5_PressLeftOthers ==
    /\ Did("PressKey")
    /\ Len(state.playedCircles) = 1
    /\ Len(prev.circles) = 3
    /\ \E i \in 1..Len(state.circles) :
           state.circles[i].cx = keyToColumn(action.key)
    /\ \E i \in 1..Len(state.circles) :
           state.circles[i].cx # keyToColumn(action.key)

(***************************************************************************)
(* C6, as stated: PressKey with exactly one aligned circle, without a      *)
(* tail, adds 10 * (the multiplier of the state the key is pressed in) to  *)
(* the score.                                                              *)
(***************************************************************************)
C6_AsStated ==
    (/\ Did("PressKey")
     /\ Len(AlignedWith(prev, action.key)) = 1
     /\ ~AlignedWith(prev, action.key)[1].hasTail)
        => state.score = prev.score + 10 * prev.multiplier

(***************************************************************************)
(* C6, amended: PressKey with exactly one aligned circle, without a tail,  *)
(* adds 10 * (the multiplier for consecutiveHits + 1) to the score: the    *)
(* multiplier the press itself computes, which is that of the state the    *)
(* key is pressed in except at every tenth hit in a row.                   *)
(***************************************************************************)
C6_PressScoresNewMultiplier ==
    (/\ Did("PressKey")
     /\ Len(AlignedWith(prev, action.key)) = 1
     /\ ~AlignedWith(prev, action.key)[1].hasTail)
        => /\ state.score
                  = prev.score + 10 * MultiplierFor(prev.consecutiveHits + 1)
           /\ (prev.consecutiveHits + 1) % 10 # 0
                  => state.score = prev.score + 10 * prev.multiplier

\* the tenth hit in a row has scored 12 points from a multiplier of 1
C6_TenthHitScores12 ==
    /\ Did("PressKey")
    /\ Len(AlignedWith(prev, action.key)) = 1
    /\ prev.consecutiveHits = 9 /\ prev.multiplier = 10
    /\ state.score = prev.score + 120

(***************************************************************************)
(* C7: PressKey(key) with no aligned circle in the key's column resets     *)
(* consecutiveHits to 0 and multiplier to 1, rehashes randomNumber,        *)
(* appends to backgroundCircles one filler, generated from the new seed    *)
(* and placed at TARGET_CY, and leaves circles, tails, score and objCount  *)
(* unchanged.                                                              *)
(***************************************************************************)
C7_MissedPress ==
    (Did("PressKey") /\ Len(AlignedWith(prev, action.key)) = 0)
        => /\ ComboReset
           /\ state.randomNumber = hash(prev.randomNumber)
           /\ state.backgroundCircles
                  = Append(prev.backgroundCircles,
                           generateRandomNote(hash(prev.randomNumber)))
           /\ state.backgroundCircles[Len(state.backgroundCircles)].cy
                  = TARGET_CY
           /\ state.circles = prev.circles
           /\ state.tails = prev.tails
           /\ state.score = prev.score
           /\ state.objCount = prev.objCount

\* a missed press has broken a combo of nine with circles and a score on
\* the board
C7_MissBreaksCombo ==
    /\ Did("PressKey")
    /\ Len(AlignedWith(prev, action.key)) = 0
    /\ prev.consecutiveHits = 9 /\ prev.score > 0 /\ Len(prev.circles) > 0
    /\ state.consecutiveHits = 0
    /\ Len(state.backgroundCircles) = Len(prev.backgroundCircles) + 1

(***************************************************************************)
(* C8: a tail held until its y2 reaches its y1 is put in finishedTails by  *)
(* the Tick applied to the state in which y2 = y1 and removed from tails,  *)
(* so that no later Tick finishes it again; that Tick adds                 *)
(* 10 * (the multiplier it computes) to the score for each tail it         *)
(* finishes; and no ReleaseKey changes the score.                          *)
(***************************************************************************)
C8_TailFinishesOnce ==
    /\ Did("Tick")
           => /\ state.finishedTails
                     = SelectSeq(prev.tails, LAMBDA t : t.y2 = t.y1)
              /\ Ids(state.finishedTails) \cap Ids(state.tails) = {}
              /\ state.score
                     = prev.score
                         + Len(state.finishedTails) * 10 * state.multiplier
    /\ Did("ReleaseKey") => state.score = prev.score
    /\ \A i, j \in 1..Len(finishedLog) : i # j => finishedLog[i] # finishedLog[j]

\* a Tick has finished the held tail and scored it, and a later Tick has not
C8_FinishedAndGone ==
    /\ Did("Tick")
    /\ prefix = "held"
    /\ Len(finishedLog) = 1
    /\ Len(prev.finishedTails) = 1
    /\ prev.score = 10 * prev.multiplier
    /\ state.finishedTails = << >>
    /\ state.score = prev.score

(***************************************************************************)
(* C9, as stated: for a played tail with y1 >= TARGET_CY and               *)
(* y1 - y2 = d > 0, the state after d Ticks has the tail in finishedTails. *)
(***************************************************************************)
MaxD == 21

\* the played tails of the running game the claim is about
Shrinking(s) ==
    IF s.gameEnd THEN << >>
    ELSE SelectSeq(s.tails,
                   LAMBDA t : /\ t.isPlayed
                              /\ t.y1 >= TARGET_CY
                              /\ t.y1 - t.y2 > 0
                              /\ t.y1 - t.y2 <= MaxD)

C9_AsStated ==
    \A i \in 1..Len(Shrinking(state)) :
        Bind(Shrinking(state)[i], LAMBDA t :
            t.id \in Ids(Ticks(state, t.y1 - t.y2).finishedTails))

(***************************************************************************)
(* C9, amended: for a played tail with y1 >= TARGET_CY and                 *)
(* y1 - y2 = d > 0, every Tick moves y2 by one and leaves y1, so that      *)
(* after exactly d Ticks y2 = y1; after that d-th Tick the tail is still   *)
(* in tails and not in finishedTails; the next Tick, the (d+1)-th, puts it *)
(* in finishedTails and removes it from tails, and it never appears in     *)
(* tails again (only CreateCircle adds a tail, under a new id).            *)
(***************************************************************************)
C9_TailFinishesATickLater ==
    /\ \A i \in 1..Len(Shrinking(state)) :
           Bind(Shrinking(state)[i], LAMBDA t :
           Bind(Ticks(state, t.y1 - t.y2), LAMBDA after :
               /\ \E k \in 1..Len(after.tails) :
                      /\ after.tails[k].id = t.id
                      /\ after.tails[k].y1 = t.y1
                      /\ after.tails[k].y2 = t.y1
               /\ t.id \notin Ids(after.finishedTails)
               /\ t.id \in Ids(reduceState(after, Tick).finishedTails)
               /\ t.id \notin Ids(reduceState(after, Tick).tails)))
    /\ Did("Tick")
           => \A i \in 1..Len(Shrinking(prev)) :
                  \E k \in 1..Len(state.tails) :
                      /\ state.tails[k].id = Shrinking(prev)[i].id
                      /\ state.tails[k].y1 = Shrinking(prev)[i].y1
                      /\ state.tails[k].y2 = Shrinking(prev)[i].y2 + 1
    /\ Step
           => \A id \in Ids(state.tails) \ Ids(prev.tails) :
                  /\ action.kind = "CreateCircle"
                  /\ id.n = prev.objCount

\* the d-th Tick has brought y2 to y1 and the tail is still in tails
C9_ReachedButNotFinished ==
    /\ Did("Tick")
    /\ \E i \in 1..Len(prev.tails) :
           /\ prev.tails[i].isPlayed
           /\ prev.tails[i].y1 >= TARGET_CY
           /\ prev.tails[i].y1 - prev.tails[i].y2 = 1
           /\ \E k \in 1..Len(state.tails) :
                  /\ state.tails[k].id = prev.tails[i].id
                  /\ state.tails[k].y2 = state.tails[k].y1
    /\ state.finishedTails = << >>

(***************************************************************************)
(* C10, as stated: ReleaseKey(key) keeps isPlayed for every played tail of *)
(* the key's column whose y2 is in [TARGET_CY - TARGET_RANGE, TARGET_CY],  *)
(* clears it for every other played tail of the column, and whenever it    *)
(* clears one the release is a miss: consecutiveHits = 0, multiplier = 1,  *)
(* randomNumber rehashed and one filler appended to backgroundCircles.     *)
(***************************************************************************)
C10_AsStated ==
    Did("ReleaseKey")
        => /\ \A i \in 1..Len(PlayedIn(prev, action.key)) :
                  \E k \in 1..Len(state.tails) :
                      /\ state.tails[k].id = PlayedIn(prev, action.key)[i].id
                      /\ state.tails[k].isPlayed
                             = InTailWindow(PlayedIn(prev, action.key)[i].y2)
           /\ (\E i \in 1..Len(PlayedIn(prev, action.key)) :
                   ~InTailWindow(PlayedIn(prev, action.key)[i].y2))
                  => /\ ComboReset
                     /\ state.randomNumber = hash(prev.randomNumber)
                     /\ Len(state.backgroundCircles)
                            = Len(prev.backgroundCircles) + 1

(***************************************************************************)
(* C11, as stated: a tail that a ReleaseKey has marked isPlayed = false is *)
(* never afterwards in finishedTails and never adds to the score, and it   *)
(* leaves tails only through a Tick that finds its y2 > EXPIRE_LIMIT and   *)
(* puts it in exit.                                                        *)
(***************************************************************************)
C11_AsStated ==
    /\ \A id \in released : id \notin Ids(state.finishedTails)
    /\ Did("Tick")
           => /\ state.score
                     = prev.score
                         + Cardinality(Ids(state.finishedTails) \ released)
                             * SCORE_INCREASE * state.multiplier
              /\ \A i \in 1..Len(prev.tails) :
                     (/\ prev.tails[i].id \in released
                      /\ prev.tails[i].id \notin Ids(state.tails))
                         => /\ prev.tails[i].y2 > EXPIRE_LIMIT
                            /\ prev.tails[i].id \in Ids(state.exit)
    /\ (Running /\ action.kind # "Tick")
           => \A id \in released :
                  id \in Ids(prev.tails) => id \in Ids(state.tails)

(***************************************************************************)
(* C12, as stated: a circle that an action removes from circles is in      *)
(* playedCircles or in exit of the state the action returns, and a tail    *)
(* that an action removes from tails is in its finishedTails or its exit.  *)
(***************************************************************************)
C12_AsStated ==
    Step
        => /\ \A id \in Ids(prev.circles) \ Ids(state.circles) :
                  id \in Ids(state.playedCircles) \cup Ids(state.exit)
           /\ \A id \in Ids(prev.tails) \ Ids(state.tails) :
                  id \in Ids(state.finishedTails) \cup Ids(state.exit)

(***************************************************************************)
(* C13: in the state a Tick produces playedCircles is empty, finishedTails *)
(* holds exactly the tails that had y2 = y1 before the Tick, and exit      *)
(* holds exactly the circles that had cy > EXPIRE_LIMIT and the tails that *)
(* had y2 > EXPIRE_LIMIT before the Tick; nothing that was in the three    *)
(* sets before the Tick carries over.                                      *)
(***************************************************************************)
C13_TickRebuildsTheFrameSets ==
    Did("Tick")
        => /\ state.playedCircles = << >>
           /\ state.finishedTails
                  = SelectSeq(prev.tails, LAMBDA t : t.y2 = t.y1)
           /\ state.exit
                  = SelectSeq(prev.circles, LAMBDA c : c.cy > EXPIRE_LIMIT)
                      \o SelectSeq(prev.tails, LAMBDA t : t.y2 > EXPIRE_LIMIT)

\* a Tick has emptied an exit that held the circle expired by the Tick before
C13_ExitNotCarriedOver ==
    /\ Did("Tick")
    /\ Len(prev.exit) = 1
    /\ prev.exit[1].id.kind = "circle"
    /\ state.exit = << >>

C15_RestartAbandonsTheGame ==
    /\ source = game
    /\ game > 0
           => /\ start = initialState
              /\ state = scan(initialState, history)
              /\ history = << >>
                     => state = initialState /\ action.kind = "startWith"

\* a game restarted after its end, with circles on the board, and the first
\* circle of the new game
C15_RestartAfterTheEnd ==
    /\ game = 1
    /\ abandoned.gameEnd
    /\ Len(abandoned.circles) > 0
    /\ Did("CreateCircle")
    /\ state.objCount = 1
    /\ Len(state.circles) = 1
    /\ ~state.gameEnd

(***************************************************************************)
(* C16: EndGame delivered to a state with gameEnd = false returns a state  *)
(* that differs from it in gameEnd = true only, and that state is emitted  *)
(* (the guard of reduceState reads the state before the action); no other  *)
(* action changes gameEnd.                                                 *)
(***************************************************************************)
C16_OnlyEndGameEnds ==
    /\ Did("EndGame") => state = [prev EXCEPT !.gameEnd = TRUE]
    /\ (Step /\ action.kind # "EndGame") => state.gameEnd = prev.gameEnd

\* the end of a game with a circle on the board
C16_EndedWithCircles ==
    /\ Did("EndGame")
    /\ Len(prev.circles) > 0
    /\ ~prev.gameEnd
    /\ state.gameEnd
    /\ state.circles = prev.circles

\* some circle of s aligned with the key has a tail, and the ids of those
HasAlignedTail(s, key) ==
    \E i \in 1..Len(AlignedWith(s, key)) : AlignedWith(s, key)[i].hasTail
HeldIds(s, key) ==
    {AlignedWith(s, key)[i].id :
        i \in {j \in 1..Len(AlignedWith(s, key)) :
                  AlignedWith(s, key)[j].hasTail}}

(***************************************************************************)
(* C17: for every state and every column key, PressKey returns the state   *)
(* unchanged exactly when some circle aligned in the key's column has a    *)
(* tail, and HoldKey returns it unchanged exactly when none has; so on the *)
(* same state exactly one of the two has an effect.                        *)
(***************************************************************************)
C17_ExactlyOneOfPressAndHold ==
    /\ Did("PressKey")
           => /\ (state = prev) <=> HasAlignedTail(prev, action.key)
              /\ (state = prev) # (HoldKeyApply(prev, action.key) = prev)
    /\ Did("HoldKey")
           => /\ (state = prev) <=> ~HasAlignedTail(prev, action.key)
              /\ (state = prev) # (PressKeyApply(prev, action.key) = prev)

\* a keydown on an aligned tailed circle: PressKey left the state as it was
\* and HoldKey changed it
C17_HoldActedPressDidNot ==
    /\ Did("HoldKey")
    /\ HasAlignedTail(prev, action.key)
    /\ PressKeyApply(prev, action.key) = prev
    /\ state # prev

(***************************************************************************)
(* C18: HoldKey with an aligned tailed circle in the key's column sets     *)
(* isPlayed and isStartNote on exactly the tails of those circles, leaves  *)
(* every other tail as it was, keeps the set of tail ids, appends those    *)
(* circles to playedCircles and leaves score, consecutiveHits, multiplier, *)
(* randomNumber, backgroundCircles and objCount unchanged.                 *)
(***************************************************************************)
C18_HoldMarksItsTails ==
    (Did("HoldKey") /\ HasAlignedTail(prev, action.key))
        => /\ Len(state.tails) = Len(prev.tails)
           /\ Ids(state.tails) = Ids(prev.tails)
           /\ \A i \in 1..Len(prev.tails) :
                  \E k \in 1..Len(state.tails) :
                      state.tails[k]
                          = IF prev.tails[i].circle.id
                                   \in HeldIds(prev, action.key)
                            THEN [prev.tails[i] EXCEPT !.isPlayed = TRUE,
                                                       !.isStartNote = TRUE]
                            ELSE prev.tails[i]
           /\ state.playedCircles
                  = prev.playedCircles
                      \o SelectSeq(AlignedWith(prev, action.key),
                                   LAMBDA c : c.hasTail)
           /\ state.score = prev.score
           /\ state.consecutiveHits = prev.consecutiveHits
           /\ state.multiplier = prev.multiplier
           /\ state.randomNumber = prev.randomNumber
           /\ state.backgroundCircles = prev.backgroundCircles
           /\ state.objCount = prev.objCount

\* a hold that marked one tail and left another tail of the column unplayed
C18_OneHeldOneNot ==
    /\ Did("HoldKey")
    /\ HasAlignedTail(prev, action.key)
    /\ \E i, k \in 1..Len(state.tails) :
           /\ state.tails[i].isPlayed /\ state.tails[i].isStartNote
           /\ ~state.tails[k].isPlayed
           /\ state.tails[k].x1 = state.tails[i].x1
    /\ \A i \in 1..Len(prev.tails) : ~prev.tails[i].isPlayed

(***************************************************************************)
(* C19: ReleaseKey returns the state unchanged whenever no played tail is  *)
(* in the key's column and finishedTails is empty; the keyup that follows  *)
(* a plain tap in such a state changes nothing.                            *)
(***************************************************************************)
C19_NothingToRelease ==
    (/\ Did("ReleaseKey")
     /\ \A i \in 1..Len(prev.tails) :
            ~(prev.tails[i].isPlayed
                  /\ prev.tails[i].x1 = keyToColumn(action.key))
     /\ prev.finishedTails = << >>)
        => state = prev

\* the keyup of a tap that has just hit a circle
C19_KeyUpAfterTap ==
    /\ Did("ReleaseKey")
    /\ Len(prev.playedCircles) = 1
    /\ prev.playedCircles[1].cx = keyToColumn(action.key)
    /\ ~prev.playedCircles[1].hasTail
    /\ prev.consecutiveHits > 0
    /\ prev.finishedTails = << >>
    /\ state = prev

(***************************************************************************)
(* C20: a Tick that finds n tails with y2 = y1 and no circle with          *)
(* cy > TARGET_CY + TARGET_RANGE adds n to consecutiveHits, sets the       *)
(* multiplier to the formula value of the new consecutiveHits and adds     *)
(* n * 10 * that multiplier to the score; a Tick that finds such a circle  *)
(* sets consecutiveHits to 0 and the multiplier to 1 and adds n * 10.      *)
(***************************************************************************)
C20_TickComboAndScore ==
    Did("Tick")
        => Bind(Len(SelectSeq(prev.tails, LAMBDA t : t.y2 = t.y1)), LAMBDA n :
               IF \E i \in 1..Len(prev.circles) :
                      prev.circles[i].cy > TARGET_CY + TARGET_RANGE
               THEN /\ state.consecutiveHits = 0
                    /\ state.multiplier = 10
                    /\ state.score = prev.score + n * 10 * 10
               ELSE /\ state.consecutiveHits = prev.consecutiveHits + n
                    /\ state.multiplier
                           = MultiplierFor(prev.consecutiveHits + n)
                    /\ state.score
                           = prev.score
                               + n * 10
                                   * MultiplierFor(prev.consecutiveHits + n))

\* a Tick that finished a tail while a circle was past the window
C20_FinishedDuringMiss ==
    /\ Did("Tick")
    /\ \E i \in 1..Len(prev.tails) : prev.tails[i].y2 = prev.tails[i].y1
    /\ \E i \in 1..Len(prev.circles) :
           prev.circles[i].cy > TARGET_CY + TARGET_RANGE
    /\ Len(state.finishedTails) = 1
    /\ state.score = prev.score + 100
    /\ state.consecutiveHits = 0

\* the tail of t with the id of the tail u, if t still has it
SameTail(t, u) == SelectSeq(t.tails, LAMBDA w : w.id = u.id)

(***************************************************************************)
(* C21: a PressKey that hits n >= 1 aligned circles, none of them tailed,  *)
(* adds exactly 1 to consecutiveHits, whatever n, and adds                 *)
(* n * 10 * newMultiplier to the score, newMultiplier being the formula    *)
(* value of consecutiveHits + 1.                                           *)
(***************************************************************************)
C21_ChordIsOneHit ==
    (/\ Did("PressKey")
     /\ Len(AlignedWith(prev, action.key)) >= 1
     /\ ~HasAlignedTail(prev, action.key))
        => /\ state.consecutiveHits = prev.consecutiveHits + 1
           /\ state.multiplier = MultiplierFor(prev.consecutiveHits + 1)
           /\ state.score
                  = prev.score
                      + Len(AlignedWith(prev, action.key)) * 10
                          * MultiplierFor(prev.consecutiveHits + 1)

\* two circles of the column hit by one press
C21_TwoAtOnce ==
    /\ Did("PressKey")
    /\ Len(AlignedWith(prev, action.key)) = 2
    /\ ~HasAlignedTail(prev, action.key)
    /\ Len(state.playedCircles) = 2
    /\ state.consecutiveHits = prev.consecutiveHits + 1
    /\ state.score = prev.score + 200

(***************************************************************************)
(* C22: a Tick moves both ends of an unplayed tail by MOVEMENT, so that    *)
(* y1 - y2 is preserved; it moves y1 of a played tail by MOVEMENT while    *)
(* y1 < TARGET_CY and leaves it from then on, and moves y2 of a played     *)
(* tail by MOVEMENT while y2 # y1; y2 never exceeds y1.                    *)
(***************************************************************************)
C22_TailMovement ==
    /\ \A i \in 1..Len(state.tails) : state.tails[i].y2 <= state.tails[i].y1
    /\ Did("Tick")
           => \A i \in 1..Len(prev.tails) :
                  \A k \in 1..Len(SameTail(state, prev.tails[i])) :
                      Bind(prev.tails[i], LAMBDA t :
                      Bind(SameTail(state, prev.tails[i])[k], LAMBDA u :
                          /\ u.isPlayed = t.isPlayed
                          /\ u.y1 = IF t.isPlayed /\ t.y1 >= TARGET_CY
                                    THEN t.y1 ELSE t.y1 + MOVEMENT
                          /\ u.y2 = IF t.isPlayed /\ t.y2 = t.y1
                                    THEN t.y2 ELSE t.y2 + MOVEMENT
                          /\ ~t.isPlayed => u.y1 - u.y2 = t.y1 - t.y2))

\* a Tick moved both ends of a played tail whose head is above the target row
C22_PlayedHeadStillFalling ==
    /\ Did("Tick")
    /\ \E i \in 1..Len(prev.tails) :
           /\ prev.tails[i].isPlayed
           /\ prev.tails[i].y1 < TARGET_CY
           /\ \E k \in 1..Len(state.tails) :
                  /\ state.tails[k].id = prev.tails[i].id
                  /\ state.tails[k].y1 = prev.tails[i].y1 + 1
                  /\ state.tails[k].y2 = prev.tails[i].y2 + 1

\* the circle CreateCircle appended, and the duration of its note
NewCircle == state.circles[Len(state.circles)]
NoteDuration == action.noteData.end - action.noteData.start

C24_AsStated ==
    Did("CreateCircle")
        => /\ NewCircle.cx \in {"20%", "40%", "60%", "80%"}
           /\ Bind((4 * (action.noteData.pitch - action.minPitch))
                       \div (action.maxPitch - action.minPitch),
                   LAMBDA index :
                       NewCircle.cx
                           = <<"20%", "40%", "60%", "80%">>
                                 [(IF index > 3 THEN 3 ELSE index) + 1])

(***************************************************************************)
(* C25, as stated: CreateBgCircle appends exactly one background circle,   *)
(* at cy = TARGET_CY, and changes no other field.                          *)
(***************************************************************************)
C25_AsStated ==
    Did("CreateBgCircle")
        => state = [prev EXCEPT !.backgroundCircles =
                                    Append(prev.backgroundCircles,
                                           [cy |-> TARGET_CY,
                                            note |-> action.noteData])]

(***************************************************************************)
(* C25, amended: CreateBgCircle appends exactly one background circle, at  *)
(* cy = START_CY, the row at which the playable circles are created, and   *)
(* changes no other field; the circle reaches the target row               *)
(* TARGET_CY - START_CY Ticks later.                                       *)
(***************************************************************************)
C25_BgCircleStartsAtTop ==
    Did("CreateBgCircle")
        => state = [prev EXCEPT !.backgroundCircles =
                                    Append(prev.backgroundCircles,
                                           [cy |-> START_CY,
                                            note |-> action.noteData])]

\* a background circle created at the top, and moved by the Tick after
C25_BgCircleFalls ==
    /\ Did("Tick")
    /\ Len(prev.backgroundCircles) > 0
    /\ prev.backgroundCircles[Len(prev.backgroundCircles)].cy = START_CY
    /\ ~prev.backgroundCircles[Len(prev.backgroundCircles)].note.userPlayed
    /\ prev.backgroundCircles[Len(prev.backgroundCircles)].note = background
    /\ state.backgroundCircles[Len(state.backgroundCircles)].cy
           = START_CY + MOVEMENT

\* the action delivered is a PressKey or a ReleaseKey that computes a miss
MissComputed ==
    \/ /\ action.kind = "PressKey"
       /\ Len(AlignedWith(prev, action.key)) = 0
    \/ /\ action.kind = "ReleaseKey"
       /\ Len(PlayedIn(prev, action.key)) > 0 \/ Len(prev.finishedTails) > 0
       /\ \A i \in 1..Len(PlayedIn(prev, action.key)) :
              ~InTailWindow(PlayedIn(prev, action.key)[i].y2)

(***************************************************************************)
(* C26: randomNumber changes only in a PressKey or a ReleaseKey that       *)
(* computes a miss: it becomes hash of the old value and exactly one       *)
(* filler, generated from the new value, is appended to backgroundCircles. *)
(* Tick (missed circles or not), HoldKey, CreateCircle, CreateBgCircle,    *)
(* EndGame and every PressKey and ReleaseKey that is not a miss leave      *)
(* randomNumber as it is and append no filler.                             *)
(***************************************************************************)
C26_SeedMovesOnlyOnMiss ==
    Running
        => IF MissComputed
           THEN /\ state.randomNumber = hash(prev.randomNumber)
                /\ state.randomNumber # prev.randomNumber
                /\ state.backgroundCircles
                       = Append(prev.backgroundCircles,
                                generateRandomNote(hash(prev.randomNumber)))
           ELSE /\ state.randomNumber = prev.randomNumber
                /\ CASE action.kind = "Tick" ->
                            /\ Len(state.backgroundCircles)
                                   <= Len(prev.backgroundCircles)
                            /\ \A i \in 1..Len(state.backgroundCircles) :
                                   \E k \in 1..Len(prev.backgroundCircles) :
                                       state.backgroundCircles[i]
                                           = [prev.backgroundCircles[k]
                                                EXCEPT !.cy = @ + MOVEMENT]
                       [] action.kind = "CreateBgCircle" ->
                            /\ Len(state.backgroundCircles)
                                   = Len(prev.backgroundCircles) + 1
                            /\ state.backgroundCircles
                                       [Len(state.backgroundCircles)].note
                                   = action.noteData
                       [] OTHER ->
                            state.backgroundCircles = prev.backgroundCircles

\* a Tick that found a circle past the window: the combo is reset, the seed
\* is not rehashed and no filler is added
C26_TickMissNoFiller ==
    /\ Did("Tick")
    /\ \E i \in 1..Len(prev.circles) :
           prev.circles[i].cy > TARGET_CY + TARGET_RANGE
    /\ ComboReset
    /\ state.randomNumber = prev.randomNumber
    /\ state.backgroundCircles = << >>

\* the snapshot s makes the view call startNote for the tail t
StartsNote(s, id) ==
    \E i \in 1..Len(s.tails) :
        /\ s.tails[i].id = id
        /\ s.tails[i].isPlayed
        /\ s.tails[i].isStartNote

(***************************************************************************)
(* C27: each held tail triggers the start-note signal exactly once: no two *)
(* snapshots contain the same tail with isPlayed and isStartNote both      *)
(* true, whatever arrives between the HoldKey and the next Tick.  Stated   *)
(* here on consecutive snapshots: the one before a delivered action and    *)
(* the one after it never both start the note of the same tail.            *)
(***************************************************************************)
C27_AsStated ==
    Running
        => \A i \in 1..Len(prev.tails) :
               ~(StartsNote(prev, prev.tails[i].id)
                    /\ StartsNote(state, prev.tails[i].id))

\* of the two actions of a keydown, the PressKey changed the State, and the
\* HoldKey did
PressActed == prev # keyDownState
HoldActed == state # prev

(***************************************************************************)
(* C28: a keydown delivers PressKey(k) and then HoldKey(k); from every     *)
(* reachable state that has not ended exactly one of the two steps changes *)
(* the state.  When the hold acts the press was no miss: the combo, the    *)
(* multiplier, the score, the seed and the background circles are those of *)
(* the state before the keydown; when the press acts the tails and the     *)
(* played circles are those the press left.                                *)
(***************************************************************************)
C28_OneOfPressAndHold ==
    Did("HoldKey")
        => /\ PressActed # HoldActed
           /\ HoldActed
                  => /\ state.consecutiveHits = keyDownState.consecutiveHits
                     /\ state.multiplier = keyDownState.multiplier
                     /\ state.score = keyDownState.score
                     /\ state.randomNumber = keyDownState.randomNumber
                     /\ state.backgroundCircles
                            = keyDownState.backgroundCircles
           /\ PressActed
                  => /\ state.tails = keyDownState.tails
                     /\ state.playedCircles = prev.playedCircles

\* a keydown on an aligned circle with a tail: the hold starts the tail, and
\* no filler is added
C28_HoldIsNoMiss ==
    /\ Did("HoldKey")
    /\ HoldActed
    /\ ~PressActed
    /\ state.backgroundCircles = keyDownState.backgroundCircles
    /\ \E i \in 1..Len(state.tails) : StartsNote(state, state.tails[i].id)

\* a tail of the column of key is among the tails the last Tick finished
FinishedIn(s, key) ==
    \E i \in 1..Len(s.finishedTails) :
        s.finishedTails[i].x1 = keyToColumn(key)

(***************************************************************************)
(* C29: when a tail has been held until completion (a Tick has moved it to *)
(* finishedTails and scored it), the ReleaseKey that follows for its key   *)
(* is never a miss, whenever it arrives relative to the next Tick: it      *)
(* leaves consecutiveHits, multiplier, randomNumber and backgroundCircles  *)
(* unchanged.                                                              *)
(***************************************************************************)
C29_AsStated ==
    (Did("ReleaseKey") /\ FinishedIn(prev, action.key))
        => /\ state.consecutiveHits = prev.consecutiveHits
           /\ state.multiplier = prev.multiplier
           /\ state.randomNumber = prev.randomNumber
           /\ state.backgroundCircles = prev.backgroundCircles

(***************************************************************************)
(* C30: under the driver's schedule (CreateCircle at the note's start, one *)
(* Tick every TICK_RATE_MS, EndGame at gameEndTime) every tail that is     *)
(* held from an aligned HoldKey until its end reaches its head is moved to *)
(* finishedTails and scored by a Tick before gameEnd becomes true, the     *)
(* tail of the note whose end is the latest included: when the game ends   *)
(* no tail is still being played.                                          *)
(***************************************************************************)
C30_AsStated ==
    state.gameEnd
        => \A i \in 1..Len(state.tails) : ~state.tails[i].isPlayed

\* the circles of s that a Tick finds past the scoring window
MissedIn(s) == Filter(s.circles, LAMBDA c : c.cy > TARGET_CY + TARGET_RANGE)

(***************************************************************************)
(* C31: a circle that passes the scoring window without being hit resets   *)
(* the combo in exactly one Tick: once a Tick has found its cy above       *)
(* TARGET_CY + TARGET_RANGE, the consecutiveHits gained afterwards are not *)
(* reset again by that circle.  A circle whose cy is more than MOVEMENT    *)
(* above that limit has been found by an earlier Tick; when every circle   *)
(* past the window is such a circle, a Tick does not reset the combo.      *)
(***************************************************************************)
C31_AsStated ==
    (/\ Did("Tick")
     /\ prev.consecutiveHits > 0
     /\ \A i \in 1..Len(MissedIn(prev)) :
            MissedIn(prev)[i].cy > TARGET_CY + TARGET_RANGE + MOVEMENT)
        => state.consecutiveHits >= prev.consecutiveHits

\* the tails of s whose circle is the circle of that id
TailsOf(s, id) == Filter(s.tails, LAMBDA t : t.circle.id = id)

(***************************************************************************)
(* C32: in every reachable state each circle of circles with hasTail has   *)
(* exactly one tail in tails whose circle.id is its id, and that tail is   *)
(* not played, has x1 equal to the circle's cx and y1 equal to the         *)
(* circle's cy; and every tail that is played belongs to a circle that is  *)
(* no longer in circles.                                                   *)
(***************************************************************************)
C32_TailFollowsCircle ==
    /\ \A i \in 1..Len(state.circles) :
           state.circles[i].hasTail
               => /\ Len(TailsOf(state, state.circles[i].id)) = 1
                  /\ ~TailsOf(state, state.circles[i].id)[1].isPlayed
                  /\ TailsOf(state, state.circles[i].id)[1].x1
                         = state.circles[i].cx
                  /\ TailsOf(state, state.circles[i].id)[1].y1
                         = state.circles[i].cy
    /\ \A i \in 1..Len(state.tails) :
           state.tails[i].isPlayed
               => state.tails[i].circle.id \notin Ids(state.circles)

\* a Tick has moved a circle and its tail together while another tail, whose
\* circle has left circles, is being played
C32_MovedTogether ==
    /\ Did("Tick")
    /\ \E i \in 1..Len(state.circles) :
           /\ state.circles[i].hasTail
           /\ state.circles[i].cy > START_CY
           /\ Len(TailsOf(state, state.circles[i].id)) = 1
    /\ \E i \in 1..Len(state.tails) : state.tails[i].isPlayed

\* the ids the circles and the tails of the game prefixes can have
ObjIds ==
    {[kind |-> k, n |-> n] :
        k \in {"circle", "tail"}, n \in 0..HITS_PER_MULTIPLIER_INCREASE}

\* the object of that id is live: a circle in circles or a tail in tails
Live(id) == id \in Ids(state.circles) \cup Ids(state.tails)

(***************************************************************************)
(* C33: no object stays live for ever.  While Ticks keep being applied and *)
(* the game has not ended, every circle leaves circles, at most            *)
(* EXPIRE_LIMIT + 2 Ticks after its creation (a circle in circles has been *)
(* moved by at most EXPIRE_LIMIT + 1 Ticks), and every tail leaves tails,  *)
(* whatever key actions are interleaved; the end of a played tail is never *)
(* past its head, so that it cannot get stuck with y2 # y1.                *)
(***************************************************************************)
C33_NoObjectStaysLive ==
    /\ [](\A i \in 1..Len(state.circles) :
              state.circles[i].cy <= START_CY + (EXPIRE_LIMIT + 1) * MOVEMENT)
    /\ [](\A i \in 1..Len(state.tails) :
              state.tails[i].isPlayed => state.tails[i].y2 <= state.tails[i].y1)
    /\ \A id \in ObjIds : Live(id) ~> ~Live(id)

\* the Tick after which nothing is live, the last tail having gone to exit
\* after a release that came too early
C33_LastObjectLeft ==
    /\ Did("Tick")
    /\ released # {}
    /\ Len(prev.tails) = 1
    /\ state.tails = << >>
    /\ state.circles = << >>
    /\ state.finishedTails = << >>

====
